---- MODULE Spec2Model ----
(***************************************************************************)
(* Token-budget trimming and token-limit resolution of RA.Aid              *)
(* (ra_aid/anthropic_token_limiter.py).                                    *)
(*                                                                         *)
(* Three specifications share the module:                                  *)
(*   SpecTrim   the message history of an agent and the two state          *)
(*              modifiers that trim it (state_modifier,                    *)
(*              sonnet_35_state_modifier);                                 *)
(*   SpecLimit  get_model_token_limit with its collaborators (config       *)
(*              repository, litellm metadata, models_params);              *)
(*   SpecRole   get_provider_and_model_for_agent_type over every           *)
(*              configuration of the six provider/model keys.              *)
(***************************************************************************)
EXTENDS Integers, Sequences, FiniteSets, TLC

VARIABLES
    messages,           \* state["messages"]: the agent's message history
    max_input_tokens,   \* budget passed to the last state-modifier call
    result,             \* list returned by the last state-modifier call
    op,                 \* which modifier produced result ("none" before any call)
    config,             \* the config dictionary the caller supplies
    agent_type,         \* "default", "research" or "planner"
    model,              \* the optional BaseChatModel handle the caller supplies
    repository,         \* what get_config_repository().get_all() does
    litellm,            \* the model info litellm's get_model_info knows
    models_params,      \* the static fallback table
    ret,                \* outcome of the last get_model_token_limit call
    resolved            \* outcome of the last get_provider_and_model_for_agent_type call

trimVars == <<messages, max_input_tokens, result, op>>

limitVars == <<config, agent_type, model, repository, litellm, models_params, ret>>

vars == <<trimVars, limitVars, resolved>>

(***************************************************************************)
(* Bounds of the model.                                                    *)
(***************************************************************************)
MaxLen == 3         \* longest message history
MaxTok == 2         \* largest token count of one message
MaxBudget == 7      \* largest max_input_tokens passed to a modifier (from 1)

(***************************************************************************)
(* Messages.  A message is immutable; id is its position in the history    *)
(* (identity is positional), role its type, tokens the count the token     *)
(* counter in use reports for it (0 for a message with empty content).     *)
(***************************************************************************)
Roles == {"system", "human", "ai"}

Min(a, b) == IF a <= b THEN a ELSE b

Max(a, b) == IF a >= b THEN a ELSE b

Reverse(s) == [i \in 1..Len(s) |-> s[Len(s) + 1 - i]]

RECURSIVE SumTokens(_)
SumTokens(msgs) ==
    IF msgs = <<>> THEN 0 ELSE msgs[1].tokens + SumTokens(Tail(msgs))

\* CiaynAgent._estimate_tokens(msg): the local per-message estimate.
EstimateTokens(msg) == msg.tokens

RECURSIVE SumEstimates(_)
SumEstimates(msgs) ==
    IF msgs = <<>> THEN 0 ELSE EstimateTokens(msgs[1]) + SumEstimates(Tail(msgs))

\* estimate_messages_tokens: 0 for no messages, else the sum of the estimates.
estimate_messages_tokens(msgs) ==
    IF msgs = <<>> THEN 0 ELSE SumEstimates(msgs)

\* wrapped_token_counter returned by create_token_counter_wrapper: 0 for no
\* messages without calling litellm, else litellm's count of the converted
\* messages (a count per message, summed).
wrapped_token_counter(msgs) ==
    IF msgs = <<>> THEN 0 ELSE SumTokens(msgs)

(***************************************************************************)
(* langchain_core trim_messages(strategy="last", allow_partial=False,      *)
(* include_system=True) with token_counter=estimate_messages_tokens, as    *)
(* sonnet_35_state_modifier calls it.                                      *)
(***************************************************************************)

\* _first_max_tokens without partial messages: the longest non-empty prefix
\* whose count is within max_tokens, or nothing.
FirstMaxTokens(msgs, max_tokens) ==
    LET fits == {k \in 1..Len(msgs) :
                    estimate_messages_tokens(SubSeq(msgs, 1, k)) <= max_tokens}
        idx  == IF fits = {} THEN 0
                ELSE CHOOSE k \in fits : \A j \in fits : j <= k
    IN  SubSeq(msgs, 1, idx)

\* The two behaviours langchain_core releases have for a SystemMessage at
\* index 0 of the list under include_system=True:
\*   "swap"     the system message is moved to the front of the reversed list
\*              and competes for the budget first;
\*   "reserve"  the system message is always kept and its tokens are taken
\*              from the budget (never below 0) before the rest is trimmed.
Releases == {"swap", "reserve"}

LeadingSystem(msgs) == msgs # <<>> /\ msgs[1].role = "system"

TrimLastSwap(msgs, max_tokens) ==
    IF LeadingSystem(msgs)
    THEN LET kept == FirstMaxTokens(<<msgs[1]>> \o Reverse(Tail(msgs)), max_tokens)
         IN  IF kept = <<>> THEN <<>>
             ELSE <<kept[1]>> \o Reverse(Tail(kept))
    ELSE Reverse(FirstMaxTokens(Reverse(msgs), max_tokens))

TrimLastReserve(msgs, max_tokens) ==
    IF LeadingSystem(msgs)
    THEN LET remaining_tokens ==
                 Max(0, max_tokens - estimate_messages_tokens(<<msgs[1]>>))
         IN  <<msgs[1]>> \o
             Reverse(FirstMaxTokens(Reverse(Tail(msgs)), remaining_tokens))
    ELSE Reverse(FirstMaxTokens(Reverse(msgs), max_tokens))

trim_messages(msgs, max_tokens, release) ==
    IF msgs = <<>> THEN <<>>
    ELSE IF release = "swap" THEN TrimLastSwap(msgs, max_tokens)
    ELSE TrimLastReserve(msgs, max_tokens)

(***************************************************************************)
(* anthropic_trim_messages(strategy="last", num_messages_to_keep=n): the   *)
(* first n messages are kept verbatim, their count is subtracted from the  *)
(* budget, and the rest is taken from the most recent message backwards    *)
(* while the running total stays within the budget.                        *)
(***************************************************************************)
RECURSIVE TakeLast(_, _)
TakeLast(msgs, remaining_tokens) ==
    IF msgs = <<>> THEN <<>>
    ELSE LET last == msgs[Len(msgs)]
             cost == wrapped_token_counter(<<last>>)
         IN  IF cost <= remaining_tokens
             THEN TakeLast(SubSeq(msgs, 1, Len(msgs) - 1), remaining_tokens - cost)
                  \o <<last>>
             ELSE <<>>

anthropic_trim_messages(msgs, max_tokens, num_messages_to_keep) ==
    IF msgs = <<>> THEN <<>>
    ELSE LET n == Min(num_messages_to_keep, Len(msgs))
             kept_messages == SubSeq(msgs, 1, n)
             remaining_msgs == SubSeq(msgs, n + 1, Len(msgs))
         IN  kept_messages \o
             TakeLast(remaining_msgs,
                      max_tokens - wrapped_token_counter(kept_messages))

(***************************************************************************)
(* The state modifiers.                                                    *)
(***************************************************************************)
NumMessagesToKeep == 2

state_modifier(msgs, max_tokens) ==
    IF msgs = <<>> THEN <<>>
    ELSE anthropic_trim_messages(msgs, max_tokens, NumMessagesToKeep)

\* Mutant: the first message's tokens are not taken from the budget.
sonnet_35_state_modifier_FullBudget(msgs, max_tokens, release) ==
    IF msgs = <<>> THEN <<>>
    ELSE <<msgs[1]>> \o trim_messages(Tail(msgs), max_tokens, release)

\* Mutant: the first message is appended after the trimmed remainder.
sonnet_35_state_modifier_FirstLast(msgs, max_tokens, release) ==
    IF msgs = <<>> THEN <<>>
    ELSE trim_messages(Tail(msgs),
                       max_tokens - estimate_messages_tokens(<<msgs[1]>>), release)
         \o <<msgs[1]>>

\* Mutant: the subtraction has its operands swapped.
sonnet_35_state_modifier_SwappedOperands(msgs, max_tokens, release) ==
    IF msgs = <<>> THEN <<>>
    ELSE <<msgs[1]>> \o
         trim_messages(Tail(msgs),
                       estimate_messages_tokens(<<msgs[1]>>) - max_tokens, release)

\* Mutant: only the trimmed remainder is returned.
sonnet_35_state_modifier_FirstDropped(msgs, max_tokens, release) ==
    IF msgs = <<>> THEN <<>>
    ELSE trim_messages(Tail(msgs),
                       max_tokens - estimate_messages_tokens(<<msgs[1]>>), release)

sonnet_35_state_modifier(msgs, max_tokens, release) ==
    IF msgs = <<>> THEN <<>>
    ELSE LET first_message == msgs[1]
             remaining_messages == Tail(msgs)
             first_tokens == estimate_messages_tokens(<<first_message>>)
             new_max_tokens == max_tokens - first_tokens
         IN  <<first_message>> \o
             trim_messages(remaining_messages, new_max_tokens, release)

(***************************************************************************)
(* Strings are sequences of characters, so that composing an identifier    *)
(* and removing hyphens are computed as the code computes them.            *)
(***************************************************************************)
EmptyStr == <<>>

ANTHROPIC == <<"a", "n", "t", "h", "r", "o", "p", "i", "c">>

OPENAI == <<"o", "p", "e", "n", "a", "i">>

CLAUDE_2 == <<"c", "l", "a", "u", "d", "e", "-", "2">>

CLAUDE2 == <<"c", "l", "a", "u", "d", "e", "2">>

CLAUDE_3_7 == <<"c", "l", "a", "u", "d", "e", "-", "3", "-", "7">>

CLAUDE37 == <<"c", "l", "a", "u", "d", "e", "3", "7">>

GPT_4 == <<"g", "p", "t", "-", "4">>

GPT4 == <<"g", "p", "t", "4">>

\* Optional[int]: None is the empty set, an integer n is {n}.
None == {}

Some(n) == {n}

ValueOf(x) == CHOOSE n \in x : TRUE

\* Python truthiness of an Optional[int].
Truthy(x) == x # None /\ x # Some(0)

(***************************************************************************)
(* Configuration dictionaries: a value per key, Missing for an absent key. *)
(***************************************************************************)
ConfigKeys == {"provider", "model", "research_provider", "research_model",
               "planner_provider", "planner_model"}

Missing == <<"<missing>">>

\* config.get(key, default)
Get(cfg, key, default) == IF cfg[key] = Missing THEN default ELSE cfg[key]

\* a or b on strings: the empty string is falsy.
OrElse(a, b) == IF a # EmptyStr THEN a ELSE b

AgentTypes == {"default", "research", "planner"}

\* Mutant: the planner branch reads the research keys.
get_provider_and_model_PlannerReadsResearch(cfg, atype) ==
    IF atype = "research" \/ atype = "planner"
    THEN <<OrElse(Get(cfg, "research_provider", EmptyStr), Get(cfg, "provider", EmptyStr)),
           OrElse(Get(cfg, "research_model", EmptyStr), Get(cfg, "model", EmptyStr))>>
    ELSE <<Get(cfg, "provider", EmptyStr), Get(cfg, "model", EmptyStr)>>

get_provider_and_model_for_agent_type(cfg, atype) ==
    IF atype = "research"
    THEN <<OrElse(Get(cfg, "research_provider", EmptyStr), Get(cfg, "provider", EmptyStr)),
           OrElse(Get(cfg, "research_model", EmptyStr), Get(cfg, "model", EmptyStr))>>
    ELSE IF atype = "planner"
    THEN <<OrElse(Get(cfg, "planner_provider", EmptyStr), Get(cfg, "provider", EmptyStr)),
           OrElse(Get(cfg, "planner_model", EmptyStr), Get(cfg, "model", EmptyStr))>>
    ELSE <<Get(cfg, "provider", EmptyStr), Get(cfg, "model", EmptyStr)>>

\* The (provider, model_name) tuple a call returned; NotResolved before any call.
Resolved(pm) ==
    [kind |-> "return", provider |-> pm[1], model_name |-> pm[2]]

NotResolved ==
    [kind |-> "none", provider |-> EmptyStr, model_name |-> EmptyStr]

(***************************************************************************)
(* Model handles.  present = FALSE is model=None; has_model and            *)
(* has_max_tokens are hasattr(model, "model") and hasattr(model,           *)
(* "max_tokens").                                                          *)
(***************************************************************************)
Handle(m, hasModel, hasMax, maxTokens) ==
    [present |-> TRUE, has_model |-> hasModel, model |-> m,
     has_max_tokens |-> hasMax, max_tokens |-> maxTokens]

NoHandle ==
    [present |-> FALSE, has_model |-> FALSE, model |-> EmptyStr,
     has_max_tokens |-> FALSE, max_tokens |-> None]

\* s occurs in t as a contiguous substring.
Contains(t, s) ==
    \E i \in 0..(Len(t) - Len(s)) : SubSeq(t, i + 1, i + Len(s)) = s

\* is_claude_37: the identifier names a Claude 3.7 (extended reasoning) model.
is_claude_37(m) ==
    \/ Contains(m, <<"3", "-", "7">>)
    \/ Contains(m, <<"3", ".", "7">>)

\* Mutant: the adjustment is applied to any handle that has max_tokens.
adjust_token_limit_AnyModel(limit, mdl) ==
    IF ~Truthy(limit) THEN limit
    ELSE IF mdl.present /\ mdl.has_model
            /\ mdl.has_max_tokens /\ Truthy(mdl.max_tokens)
    THEN Some(ValueOf(limit) - ValueOf(mdl.max_tokens))
    ELSE limit

adjust_claude_37_token_limit(limit, mdl) ==
    IF ~Truthy(limit) THEN limit
    ELSE IF mdl.present /\ mdl.has_model /\ is_claude_37(mdl.model)
            /\ mdl.has_max_tokens /\ Truthy(mdl.max_tokens)
    THEN Some(ValueOf(limit) - ValueOf(mdl.max_tokens))
    ELSE limit

(***************************************************************************)
(* get_model_token_limit.  An outcome is a return or a raised exception;   *)
(* source and unadjusted record which debug line the call logged: the      *)
(* litellm limit, the models_params limit, or that none was found.         *)
(***************************************************************************)
Return(v, src, raw) ==
    [kind |-> "return", value |-> v, exc |-> "", source |-> src, unadjusted |-> raw]

Raise(e) ==
    [kind |-> "raise", value |-> None, exc |-> e, source |-> "exception",
     unadjusted |-> None]

NotCalled ==
    [kind |-> "none", value |-> None, exc |-> "", source |-> "", unadjusted |-> None]

\* provider_model = model_name if not provider else f"{provider}/{model_name}"
ProviderModel(provider, model_name) ==
    IF provider = EmptyStr THEN model_name ELSE provider \o <<"/">> \o model_name

\* Mutant: the model name is looked up as it is.
RemoveHyphens_NotNormalized(name) == name

\* model_name.replace("-", "")
RemoveHyphens(name) == SelectSeq(name, LAMBDA c : c # "-")

\* litellm's get_model_info raises for an identifier it does not know.
Knows(db, id) == \E e \in db : e.id = id

\* model_info.get("max_input_tokens")
MaxInputTokensOf(db, id) == (CHOOSE e \in db : e.id = id).max_input_tokens

\* provider_tokens = models_params.get(provider, {})
ProviderTokens(table, provider) == {e \in table : e.provider = provider}

\* Lines 286-299: the fallback to models_params and the final adjustment.
FallbackLimit(provider, model_name, mdl, table) ==
    LET normalized_name == RemoveHyphens(model_name)
        provider_tokens == ProviderTokens(table, provider)
        found == {e \in provider_tokens : e.name = normalized_name}
    IN  IF found # {}
        THEN LET entry == CHOOSE e \in found : TRUE
             IN  IF entry.token_limit = None
                 THEN Raise("KeyError")   \* entry["token_limit"] is missing
                 ELSE Return(adjust_claude_37_token_limit(entry.token_limit, mdl),
                             "models_params", entry.token_limit)
        ELSE Return(adjust_claude_37_token_limit(None, mdl), "none", None)

\* Lines 268-299: resolution on the configuration chosen, inside the outer try.
ResolveLimit(cfg, atype, mdl, db, table) ==
    LET pm == get_provider_and_model_for_agent_type(cfg, atype)
        provider == pm[1]
        model_name == pm[2]
        provider_model == ProviderModel(provider, model_name)
    IN  IF Knows(db, provider_model)
           /\ Truthy(MaxInputTokensOf(db, provider_model))
        THEN Return(adjust_claude_37_token_limit(
                        MaxInputTokensOf(db, provider_model), mdl),
                    "litellm", MaxInputTokensOf(db, provider_model))
        ELSE FallbackLimit(provider, model_name, mdl, table)

\* Mutant: the snapshot read from the repository is not assigned to config.
ChooseConfig_SnapshotDropped(cfg, repo) ==
    IF repo.status = "ok" \/ repo.status = "RuntimeError"
    THEN [raised |-> "", config |-> cfg]
    ELSE [raised |-> repo.status, config |-> cfg]

\* Lines 259-266: the repository's snapshot replaces config; only a
\* RuntimeError of the repository is caught there.
ChooseConfig(cfg, repo) ==
    IF repo.status = "ok" THEN [raised |-> "", config |-> repo.snapshot]
    ELSE IF repo.status = "RuntimeError" THEN [raised |-> "", config |-> cfg]
    ELSE [raised |-> repo.status, config |-> cfg]

\* Lines 257-303 without the outer except.
TryBody(cfg, atype, mdl, repo, db, table) ==
    LET chosen == ChooseConfig(cfg, repo)
    IN  IF chosen.raised # "" THEN Raise(chosen.raised)
        ELSE ResolveLimit(chosen.config, atype, mdl, db, table)

\* Mutant: the outer handler catches RuntimeError only.
get_model_token_limit_CatchesRuntimeErrorOnly(cfg, atype, mdl, repo, db, table) ==
    LET outcome == TryBody(cfg, atype, mdl, repo, db, table)
    IN  IF outcome.kind = "raise" /\ outcome.exc = "RuntimeError"
        THEN Return(None, "exception", None)
        ELSE outcome

\* except Exception: logger.warning(...); return None
get_model_token_limit(cfg, atype, mdl, repo, db, table) ==
    LET outcome == TryBody(cfg, atype, mdl, repo, db, table)
    IN  IF outcome.kind = "raise"
        THEN Return(None, "exception", None)
        ELSE outcome

(***************************************************************************)
(* SpecLimit: the collaborators of get_model_token_limit are drawn from    *)
(* small sets; the function is called, and the repository may change       *)
(* between calls (the limit is computed afresh on every call).             *)
(***************************************************************************)
Config(p, m, rp, rm, pp, pmod) ==
    [provider |-> p, model |-> m, research_provider |-> rp, research_model |-> rm,
     planner_provider |-> pp, planner_model |-> pmod]

EmptyConfig == Config(Missing, Missing, Missing, Missing, Missing, Missing)

LimitConfigs ==
    { Config(ANTHROPIC, CLAUDE_2, Missing, Missing, Missing, Missing),
      Config(ANTHROPIC, CLAUDE_3_7, OPENAI, GPT_4, Missing, EmptyStr),
      Config(Missing, GPT_4, Missing, Missing, ANTHROPIC, CLAUDE_3_7),
      EmptyConfig }

Repositories ==
    {[status |-> "ok", snapshot |-> c] : c \in LimitConfigs}
    \cup {[status |-> e, snapshot |-> EmptyConfig] : e \in {"RuntimeError", "Exception"}}

Handles ==
    { NoHandle,
      Handle(CLAUDE_3_7, TRUE, TRUE, Some(64000)),
      Handle(CLAUDE_3_7, TRUE, TRUE, Some(200000)),
      Handle(CLAUDE_3_7, TRUE, TRUE, Some(0)),
      Handle(CLAUDE_3_7, TRUE, TRUE, None),
      Handle(CLAUDE_3_7, TRUE, FALSE, None),
      Handle(CLAUDE_3_7, FALSE, TRUE, Some(64000)),
      Handle(CLAUDE_2, TRUE, TRUE, Some(64000)) }

LitellmIds ==
    { ANTHROPIC \o <<"/">> \o CLAUDE_2, ANTHROPIC \o <<"/">> \o CLAUDE_3_7,
      OPENAI \o <<"/">> \o GPT_4, GPT_4 }

LitellmDBs ==
    {{}} \cup {{[id |-> i, max_input_tokens |-> v]} :
                  i \in LitellmIds, v \in {None, Some(0), Some(64000), Some(200000)}}

Entry(p, n, limit) == [provider |-> p, name |-> n, token_limit |-> limit]

FallbackTables ==
    { {},
      { Entry(ANTHROPIC, CLAUDE2, Some(100000)),
        Entry(ANTHROPIC, CLAUDE_3_7, Some(150000)),
        Entry(OPENAI, GPT4, Some(8192)) },
      { Entry(ANTHROPIC, CLAUDE37, Some(200000)),
        Entry(ANTHROPIC, CLAUDE2, None),
        Entry(EmptyStr, GPT4, Some(8192)) } }

LimitIdle ==
    /\ config = EmptyConfig
    /\ agent_type = "default"
    /\ model = NoHandle
    /\ repository = [status |-> "RuntimeError", snapshot |-> EmptyConfig]
    /\ litellm = {}
    /\ models_params = {}
    /\ ret = NotCalled

TrimIdle ==
    /\ messages = <<>>
    /\ max_input_tokens = 0
    /\ result = <<>>
    /\ op = "none"

InitLimit ==
    /\ config \in LimitConfigs
    /\ agent_type \in AgentTypes
    /\ model \in Handles
    /\ repository \in Repositories
    /\ litellm \in LitellmDBs
    /\ models_params \in FallbackTables
    /\ ret = NotCalled
    /\ TrimIdle
    /\ resolved = NotResolved

CallGetModelTokenLimit ==
    /\ ret.kind = "none"
    /\ ret' = get_model_token_limit(config, agent_type, model, repository,
                                    litellm, models_params)
    /\ UNCHANGED <<config, agent_type, model, repository, litellm, models_params>>
    /\ UNCHANGED <<trimVars, resolved>>

\* The configuration store changes (a session starts or ends, a key is set).
RepositoryChanges ==
    /\ ret.kind # "none"
    /\ \E r \in Repositories : r # repository /\ repository' = r
    /\ ret' = NotCalled
    /\ UNCHANGED <<config, agent_type, model, litellm, models_params>>
    /\ UNCHANGED <<trimVars, resolved>>

NextLimit == CallGetModelTokenLimit \/ RepositoryChanges

SpecLimit == InitLimit /\ [][NextLimit]_vars

(***************************************************************************)
(* SpecRole: get_provider_and_model_for_agent_type over every              *)
(* configuration of the six keys.                                          *)
(***************************************************************************)
M1 == <<"m", "1">>

M2 == <<"m", "2">>

ProviderValues == {Missing, EmptyStr, ANTHROPIC, OPENAI}

ModelValues == {Missing, EmptyStr, M1, M2}

RoleConfigs ==
    {Config(p, m, rp, rm, pp, pmod) :
        p \in ProviderValues, m \in ModelValues,
        rp \in ProviderValues, rm \in ModelValues,
        pp \in ProviderValues, pmod \in ModelValues}

InitRole ==
    /\ config \in RoleConfigs
    /\ agent_type = "default"
    /\ model = NoHandle
    /\ repository = [status |-> "RuntimeError", snapshot |-> EmptyConfig]
    /\ litellm = {}
    /\ models_params = {}
    /\ ret = NotCalled
    /\ TrimIdle
    /\ resolved = NotResolved

CallGetProviderAndModel ==
    /\ \E a \in AgentTypes :
          /\ agent_type' = a
          /\ resolved' = Resolved(get_provider_and_model_for_agent_type(config, a))
    /\ UNCHANGED <<config, model, repository, litellm, models_params, ret>>
    /\ UNCHANGED trimVars

NextRole == CallGetProviderAndModel

SpecRole == InitRole /\ [][NextRole]_vars

(***************************************************************************)
(* SpecTrim: the history grows one message at a time; a state modifier may *)
(* be called on the current history with any positive budget (callers pass *)
(* get_model_token_limit(...) or DEFAULT_TOKEN_LIMIT).                     *)
(***************************************************************************)
InitTrim ==
    /\ TrimIdle
    /\ LimitIdle
    /\ resolved = NotResolved

\* The agent loop appends a message; the record of the last call is dropped.
AddMessage ==
    /\ Len(messages) < MaxLen
    /\ \E r \in Roles, t \in 0..MaxTok :
          messages' = Append(messages,
                             [id |-> Len(messages) + 1, role |-> r, tokens |-> t])
    /\ max_input_tokens' = 0
    /\ result' = <<>>
    /\ op' = "none"
    /\ UNCHANGED <<limitVars, resolved>>

CallStateModifier ==
    /\ op = "none"
    /\ \E m \in 1..MaxBudget :
          /\ max_input_tokens' = m
          /\ result' = state_modifier(messages, m)
    /\ op' = "state_modifier"
    /\ UNCHANGED <<messages, limitVars, resolved>>

CallSonnet35StateModifier ==
    /\ op = "none"
    /\ \E m \in 1..MaxBudget, release \in Releases :
          /\ max_input_tokens' = m
          /\ result' = sonnet_35_state_modifier(messages, m, release)
    /\ op' = "sonnet_35_state_modifier"
    /\ UNCHANGED <<messages, limitVars, resolved>>

NextTrim == AddMessage \/ CallStateModifier \/ CallSonnet35StateModifier

SpecTrim == InitTrim /\ [][NextTrim]_vars

(***************************************************************************)
(* Claims about trimming (checked under SpecTrim).                         *)
(***************************************************************************)
Called == op # "none" /\ messages # <<>>

PolicyA == op = "state_modifier"

PolicyB == op = "sonnet_35_state_modifier"

\* The policy's own counter.
OwnCount(msgs) ==
    IF PolicyA THEN wrapped_token_counter(msgs) ELSE estimate_messages_tokens(msgs)

\* Length of the mandatory prefix of the current history.
PrefixLen == Min(IF PolicyA THEN NumMessagesToKeep ELSE 1, Len(messages))

Prefix == SubSeq(messages, 1, PrefixLen)

\* Policy B hands messages[1:] to trim_messages with include_system=True, so a
\* system message in second position is treated as a leading system message.
SystemSecond ==
    PolicyB /\ Len(messages) >= 2 /\ messages[2].role = "system"

\* Messages kept whatever the budget: the prefix, and that system message.
UnconditionalLen == IF SystemSecond THEN 2 ELSE PrefixLen

\* result is the first n messages followed by a contiguous suffix of the rest.
PrefixThenSuffix(n) ==
    \E k \in n..Len(messages) :
        result = SubSeq(messages, 1, n) \o SubSeq(messages, k + 1, Len(messages))

Retrim(msgs, release) ==
    IF PolicyA THEN state_modifier(msgs, max_input_tokens)
    ELSE sonnet_35_state_modifier(msgs, max_input_tokens, release)

\* C9: a history whose total count is at most max_tokens is returned
\* unchanged, and trimming a within-budget output again with the same budget
\* returns it unchanged.
C9_WithinBudgetUnchanged ==
    Called =>
        /\ OwnCount(messages) <= max_input_tokens => result = messages
        /\ OwnCount(result) <= max_input_tokens =>
              \A release \in Releases : Retrim(result, release) = result

\* C9 witness: Policy B was given a history of three or more messages that
\* fills the budget exactly and returned it whole.
C9_Witness ==
    /\ PolicyB
    /\ Len(messages) >= 3
    /\ OwnCount(messages) = max_input_tokens
    /\ result = messages

(***************************************************************************)
(* Claims about get_model_token_limit (checked under SpecLimit).           *)
(***************************************************************************)
Returned == ret.kind # "none"

\* The configuration the call resolves against when it gets that far.
UsedConfig == IF repository.status = "ok" THEN repository.snapshot ELSE config

UsedProvider == get_provider_and_model_for_agent_type(UsedConfig, agent_type)[1]

UsedModelName == get_provider_and_model_for_agent_type(UsedConfig, agent_type)[2]

\* The composite identifier: the model name alone when the provider is empty,
\* else "provider/model_name".
CompositeId ==
    IF UsedProvider = EmptyStr THEN UsedModelName
    ELSE UsedProvider \o <<"/">> \o UsedModelName

\* The truthy max_input_tokens litellm has for the composite identifier, if any.
LitellmAnswer ==
    LET known == {e \in litellm : e.id = CompositeId /\ Truthy(e.max_input_tokens)}
    IN  IF known = {} THEN None ELSE (CHOOSE e \in known : TRUE).max_input_tokens

\* The entries of the fallback table under the provider and the model name
\* with all hyphens removed.
TableEntries ==
    {e \in models_params :
        /\ e.provider = UsedProvider
        /\ e.name = SelectSeq(UsedModelName, LAMBDA c : c # "-")}

\* C2: the call never propagates an exception and returns an integer or None;
\* it returns None when neither litellm nor the fallback table has a value
\* for the resolved provider/model pair.
C2_NeverRaises ==
    Returned =>
        /\ ret.kind = "return"
        /\ Cardinality(ret.value) <= 1
        /\ \A n \in ret.value : n \in Int
        /\ (LitellmAnswer = None /\ TableEntries = {}) => ret.value = None

\* C2 witness: the repository failed with an exception other than
\* RuntimeError and the call returned None.
C2_Witness ==
    /\ Returned
    /\ repository.status = "Exception"
    /\ ret.kind = "return"
    /\ ret.value = None

\* C3: the unadjusted limit is litellm's truthy max_input_tokens for the
\* composite identifier, the fallback table not being consulted; failing
\* that, the token_limit of fallback_table[provider][model name without
\* hyphens] when that entry exists, and None otherwise.
C3_SourceOrder ==
    (Returned /\ ret.source # "exception") =>
        IF LitellmAnswer # None
        THEN ret.source = "litellm" /\ ret.unadjusted = LitellmAnswer
        ELSE IF TableEntries # {}
        THEN /\ ret.source = "models_params"
             /\ \E e \in TableEntries : ret.unadjusted = e.token_limit
        ELSE ret.source = "none" /\ ret.unadjusted = None

\* C3 witness: litellm knows anthropic/claude-2 without a truthy limit and the
\* limit comes from models_params["anthropic"]["claude2"].
C3_Witness ==
    /\ Returned
    /\ UsedProvider = ANTHROPIC
    /\ UsedModelName = CLAUDE_2
    /\ \E e \in litellm : e.id = CompositeId /\ ~Truthy(e.max_input_tokens)
    /\ ret.source = "models_params"
    /\ ret.unadjusted = Some(100000)

\* C5: the returned limit is the unadjusted limit minus the handle's
\* max_tokens exactly when the unadjusted limit is truthy, a handle with a
\* Claude 3.7 model identifier is supplied and its max_tokens is truthy; in
\* every other case it is the unadjusted limit unchanged, whichever source
\* it came from.
C5_AdjustmentExactlyForClaude37 ==
    (Returned /\ ret.source # "exception") =>
        LET applies ==
                /\ Truthy(ret.unadjusted)
                /\ model.present
                /\ model.has_model
                /\ is_claude_37(model.model)
                /\ model.has_max_tokens
                /\ Truthy(model.max_tokens)
        IN  IF applies
            THEN ret.value = Some(ValueOf(ret.unadjusted) - ValueOf(model.max_tokens))
            ELSE ret.value = ret.unadjusted

\* C5 witness: a limit of 200000 from models_params and a Claude 3.7 handle
\* with max_tokens 64000 give 136000.
C5_Witness ==
    /\ Returned
    /\ ret.source = "models_params"
    /\ ret.unadjusted = Some(200000)
    /\ model = Handle(CLAUDE_3_7, TRUE, TRUE, Some(64000))
    /\ ret.value = Some(136000)

\* What resolution on configuration cfg alone produces.
ResolutionOn(cfg) ==
    LET outcome == ResolveLimit(cfg, agent_type, model, litellm, models_params)
    IN  IF outcome.kind = "raise" THEN None ELSE outcome.value

\* C6 as stated: the live snapshot decides the result whenever the store can
\* be read, and whenever obtaining it fails the result is what resolution on
\* the supplied config alone produces.
C6_AnyStoreFailureFallsBack ==
    Returned =>
        /\ repository.status = "ok" => ret.value = ResolutionOn(repository.snapshot)
        /\ repository.status # "ok" => ret.value = ResolutionOn(config)

\* C6 amended: the live snapshot decides the result whenever the store can be
\* read; when obtaining it fails with a RuntimeError the result is what
\* resolution on the supplied config alone produces; when it fails with any
\* other exception the call returns None.
C6_RuntimeErrorFallsBack ==
    Returned =>
        /\ repository.status = "ok" => ret.value = ResolutionOn(repository.snapshot)
        /\ repository.status = "RuntimeError" => ret.value = ResolutionOn(config)
        /\ repository.status \notin {"ok", "RuntimeError"} =>
              ret.kind = "return" /\ ret.value = None

\* C6 witness: the repository raised RuntimeError and the limit was resolved
\* from the supplied config.
C6_Witness ==
    /\ Returned
    /\ repository.status = "RuntimeError"
    /\ ret.value # None
    /\ ret.value = ResolutionOn(config)

\* C10: every value the call returns is None or a positive integer.
C10_NoneOrPositive ==
    Returned => (ret.value = None \/ ValueOf(ret.value) > 0)

(***************************************************************************)
(* Claim about get_provider_and_model_for_agent_type (checked under        *)
(* SpecRole).                                                              *)
(***************************************************************************)
\* The value of key when it is present and non-empty, else that of generic
\* (the empty string when generic is absent).
RoleOrGeneric(key, generic) ==
    IF config[key] # Missing /\ config[key] # EmptyStr THEN config[key]
    ELSE IF config[generic] # Missing THEN config[generic]
    ELSE EmptyStr

Generic(generic) ==
    IF config[generic] # Missing THEN config[generic] ELSE EmptyStr

\* C4: provider and model are resolved independently; for "research" and
\* "planner" the role-specific key is used when present and non-empty, else
\* the generic key; for "default" only the generic keys are read.
C4_RolePrecedence ==
    resolved.kind = "return" =>
        /\ agent_type = "research" =>
              /\ resolved.provider = RoleOrGeneric("research_provider", "provider")
              /\ resolved.model_name = RoleOrGeneric("research_model", "model")
        /\ agent_type = "planner" =>
              /\ resolved.provider = RoleOrGeneric("planner_provider", "provider")
              /\ resolved.model_name = RoleOrGeneric("planner_model", "model")
        /\ agent_type = "default" =>
              /\ resolved.provider = Generic("provider")
              /\ resolved.model_name = Generic("model")

\* C4 witness: research_model m1 and model m2, no research_provider: research
\* resolves to the generic provider and to m1.
C4_Witness ==
    /\ resolved.kind = "return"
    /\ agent_type = "research"
    /\ config.research_model = M1
    /\ config.model = M2
    /\ config.research_provider = Missing
    /\ config.provider = ANTHROPIC
    /\ resolved.model_name = M1
    /\ resolved.provider = ANTHROPIC

====
